---- MODULE Spec2Model ----
(***************************************************************************)
(* Model of MeshProcessingViewer (src/apps/MeshProcessingViewer.cpp): the  *)
(* keyboard handler with the orientation rebuild, the per-frame command    *)
(* catalogue of process_imgui with its persistent slider values, and the   *)
(* mouse handler with the geodesic gesture.                                *)
(*                                                                         *)
(* A mesh is a record  [vpos, vdeleted, faces]:  vpos[h+1] is the position *)
(* of the vertex with handle h (handles are the 0-based indices a          *)
(* SurfaceMesh issues), vdeleted[h+1] marks a deleted, not yet compacted   *)
(* vertex, faces is the face list in enumeration order, each face being    *)
(* the list of its vertex handles in traversal order.                      *)
(***************************************************************************)
EXTENDS Integers, Sequences, FiniteSets, TLC

\* ---------------------------------------------------------------- bounds
MaxVerts == 5
MaxFaces == 3
MaxDeleted == 1

\* ------------------------------------------------------- GLFW constants
GLFW_RELEASE == 0
GLFW_PRESS == 1
GLFW_REPEAT == 2
GLFW_KEY_O == 79
GLFW_MOUSE_BUTTON_MIDDLE == 2
GLFW_MOD_SHIFT == 1

\* the events drawn: the flip-orientation key and its neighbour P, the three
\* key and button actions, no modifier, shift, shift with control, the
\* left and the middle button
OtherKey == GLFW_KEY_O + 1
Keys == {GLFW_KEY_O, OtherKey}
Actions == {GLFW_RELEASE, GLFW_PRESS, GLFW_REPEAT}
Scancodes == {24}
Mods == {0, GLFW_MOD_SHIFT, GLFW_MOD_SHIFT + 2}
KeyMods == {0, GLFW_MOD_SHIFT}
Buttons == {0, GLFW_MOUSE_BUTTON_MIDDLE}

\* mesh_              the active mesh (MeshViewer::mesh_)
\* before             the mesh the last orientation rebuild replaced and
\*                    whether all its face insertions succeeded, as long
\*                    as no command has worked on mesh_ since
\* event              the input event the last handler was called for
\* calls              the calls that handler made to the mesh under
\*                    construction, the base viewer and the algorithms,
\*                    in order, with their arguments and results
\* iterations ... aspect_ratio   the static slider values of process_imgui
\*                    (timestep in thousandths)
\* modifiers_         the modifier mask the base viewer holds
\* draw_mode, texture, texcoords   the draw mode, the colour scheme and
\*                    what the texture coordinates of mesh_ hold
VARIABLES mesh_, before, event, calls, iterations, timestep,
          target_percentage, normal_deviation, aspect_ratio, modifiers_,
          draw_mode, texture, texcoords

vars == <<mesh_, before, event, calls, iterations, timestep,
          target_percentage, normal_deviation, aspect_ratio, modifiers_,
          draw_mode, texture, texcoords>>

params == <<iterations, timestep, target_percentage, normal_deviation,
            aspect_ratio>>

view == <<draw_mode, texture, texcoords>>

\* ------------------------------------------------------------ sequences
Reverse(s) == [i \in 1..Len(s) |-> s[Len(s) + 1 - i]]

Range(s) == {s[i] : i \in 1..Len(s)}

\* ------------------------------------------------------ the mesh (pmp)
EmptyMesh == [vpos |-> <<>>, vdeleted |-> <<>>, faces |-> <<>>]

\* mesh_.vertices(): the handles of the vertices that are not deleted, in
\* storage order
vertices(m) ==
    SelectSeq([i \in 1..Len(m.vpos) |-> i - 1],
              LAMBDA v : ~m.vdeleted[v + 1])

n_vertices(m) == Len(vertices(m))

position(m, v) == m.vpos[v + 1]

\* mesh_.is_valid(v): the handle indexes the mesh's vertex storage
is_valid(m, v) == v >= 0 /\ v < Len(m.vpos)

\* new_mesh.add_vertex(p): the vertex is appended, its handle is the
\* previous number of stored vertices
add_vertex(m, p) ==
    [m EXCEPT !.vpos = Append(@, p), !.vdeleted = Append(@, FALSE)]

\* the halfedges (a -> b) that bound a face
FaceHalfedges(f) == {<<f[i], f[(i % Len(f)) + 1]>> : i \in 1..Len(f)}

UsedHalfedges(m) == UNION {FaceHalfedges(m.faces[j]) : j \in 1..Len(m.faces)}

\* a vertex is on the boundary when it is isolated or has an outgoing
\* halfedge without a face
is_boundary(m, v) ==
    LET used == UsedHalfedges(m)
    IN  \/ ~\E e \in used : e[1] = v \/ e[2] = v
        \/ \E e \in used : e[2] = v /\ <<v, e[1]>> \notin used

\* new_mesh.add_face(vs).  A handle the mesh never issued indexes outside
\* its vertex storage: undefined behaviour, and ub names the outcome (the
\* face is rejected, or it is linked in as given; a run that dies inside
\* the call has no next state).  Otherwise the face is rejected at a
\* complex vertex (not on the boundary) or a complex edge (a halfedge that
\* already has a face), and appended if neither occurs.
add_face(m, vs, ub) ==
    LET linked == [mesh |-> [m EXCEPT !.faces = Append(@, vs)], ok |-> TRUE]
        rejected == [mesh |-> m, ok |-> FALSE]
    IN  IF \E i \in 1..Len(vs) : ~is_valid(m, vs[i])
        THEN IF ub = "link" THEN linked ELSE rejected
        ELSE IF \E i \in 1..Len(vs) : ~is_boundary(m, vs[i])
        THEN rejected
        ELSE IF FaceHalfedges(vs) \cap UsedHalfedges(m) # {}
        THEN rejected
        ELSE linked

\* ------------------------------------------- the orientation rebuild
\* lines 48-51: one add_vertex per enumerated vertex of mesh_
RECURSIVE CopyVertices(_, _, _, _)
CopyVertices(old, vs, i, acc) ==
    IF i > Len(vs) THEN acc
    ELSE LET p == position(old, vs[i])
         IN  CopyVertices(old, vs, i + 1,
                 [mesh |-> add_vertex(acc.mesh, p),
                  log |-> Append(acc.log,
                      <<"add_vertex", p, Len(acc.mesh.vpos)>>)])

\* FlipFaces without the std::reverse of line 59
RECURSIVE FlipFacesUnreversed(_, _, _, _)
FlipFacesUnreversed(old, j, ubs, acc) ==
    IF j > Len(old.faces) THEN acc
    ELSE LET vs == old.faces[j]
             r == add_face(acc.mesh, vs, ubs[j])
         IN  FlipFacesUnreversed(old, j + 1, ubs,
                 [mesh |-> r.mesh,
                  log |-> Append(acc.log, <<"add_face", vs, r.ok>>)])

\* FlipFaces leaving the loop at the first face add_face rejects
RECURSIVE FlipFacesStopping(_, _, _, _)
FlipFacesStopping(old, j, ubs, acc) ==
    IF j > Len(old.faces) THEN acc
    ELSE LET vs == Reverse(old.faces[j])
             r == add_face(acc.mesh, vs, ubs[j])
             next == [mesh |-> r.mesh,
                      log |-> Append(acc.log, <<"add_face", vs, r.ok>>)]
         IN  IF r.ok THEN FlipFacesStopping(old, j + 1, ubs, next) ELSE next

\* lines 52-61: per enumerated face of mesh_, the handles mesh_.vertices(f)
\* yields are collected, reversed and passed to new_mesh.add_face; the
\* returned face handle is not looked at
RECURSIVE FlipFaces(_, _, _, _)
FlipFaces(old, j, ubs, acc) ==
    IF j > Len(old.faces) THEN acc
    ELSE LET vs == Reverse(old.faces[j])
             r == add_face(acc.mesh, vs, ubs[j])
         IN  FlipFaces(old, j + 1, ubs,
                 [mesh |-> r.mesh,
                  log |-> Append(acc.log, <<"add_face", vs, r.ok>>)])

\* lines 47-61: new_mesh and the calls made while building it
Rebuild(old, ubs) ==
    FlipFaces(old, 1, ubs,
        CopyVertices(old, vertices(old), 1, [mesh |-> EmptyMesh, log |-> <<>>]))

\* the faces of m that name a handle the rebuilt mesh will not have issued
Stale(m, j) == \E i \in 1..Len(m.faces[j]) : m.faces[j][i] >= n_vertices(m)

\* one outcome per face whose insertion is undefined behaviour
UBChoices(m) ==
    {ubs \in [1..Len(m.faces) -> {"reject", "link"}] :
        \A j \in 1..Len(m.faces) : ~Stale(m, j) => ubs[j] = "reject"}

\* ------------------------------------------------------- input meshes
\* the faces of an input mesh: triangles over three consecutive live
\* vertices lv[i], lv[i+1], lv[i+2], in either orientation, listed from
\* their smallest handle
Triangles(lv) ==
    {<<lv[i], lv[i + 1], lv[i + 2]>> : i \in 1..(Len(lv) - 2)} \cup
    {<<lv[i], lv[i + 2], lv[i + 1]>> : i \in 1..(Len(lv) - 2)}

\* the lists of k faces in which no halfedge bounds two faces
RECURSIVE FaceListsOfLen(_, _)
FaceListsOfLen(lv, k) ==
    IF k = 0 THEN {<<>>}
    ELSE LET tris == Triangles(lv)
         IN  {l \in {Append(fs, t) : fs \in FaceListsOfLen(lv, k - 1),
                                     t \in tris} :
                \A j \in 1..(k - 1) :
                      FaceHalfedges(l[j]) \cap FaceHalfedges(l[k]) = {}}

FaceLists(lv) == UNION {FaceListsOfLen(lv, k) : k \in 0..MaxFaces}

\* a mesh with n stored vertices of which those in del are deleted and not
\* yet compacted; vertex h sits at point h + 1, so that distinct vertices
\* are at distinct points
MeshesOn(n, del) ==
    LET m0 == [vpos |-> [i \in 1..n |-> i],
               vdeleted |-> [i \in 1..n |-> (i - 1) \in del],
               faces |-> <<>>]
    IN  {[m0 EXCEPT !.faces = fs] : fs \in FaceLists(vertices(m0))}

Meshes ==
    UNION {UNION {MeshesOn(n, del) :
                    del \in {d \in SUBSET (0..(n - 1)) :
                                Cardinality(d) <= MaxDeleted}} :
           n \in 0..MaxVerts}

\* ------------------------------------------------------------- defaults
Defaults ==
    /\ iterations = 10
    /\ timestep = 1
    /\ target_percentage = 10
    /\ normal_deviation = 135
    /\ aspect_ratio = 10

NoMesh == [none |-> TRUE]
NoEvent == [type |-> "none"]

\* the state after construction with a mesh loaded by the shell
InitView ==
    /\ before = NoMesh
    /\ event = NoEvent
    /\ calls = <<>>
    /\ Defaults
    /\ modifiers_ = 0
    /\ draw_mode = "Hidden Line"
    /\ texture = "none"
    /\ texcoords = "none"

\* ------------------------------------------------------------- keyboard
\* keyboard with line 40 letting only a press through
keyboardPressOnly(key, scancode, action, mods) ==
    /\ event' = [type |-> "key", key |-> key, scancode |-> scancode,
                 action |-> action, mods |-> mods]
    /\ IF action # GLFW_PRESS
       THEN /\ calls' = <<>>
            /\ UNCHANGED <<mesh_, before>>
       ELSE IF key = GLFW_KEY_O
       THEN \E ubs \in UBChoices(mesh_) :
              LET r == Rebuild(mesh_, ubs)
              IN  /\ mesh_' = r.mesh
                  /\ calls' = Append(r.log, <<"update_mesh">>)
                  /\ before' = [none |-> FALSE, mesh |-> mesh_,
                                clean |-> \A i \in 1..Len(r.log) :
                                    r.log[i][1] = "add_face" => r.log[i][3]]
       ELSE /\ calls' = << <<"MeshViewer::keyboard", key, scancode, action,
                             mods>> >>
            /\ UNCHANGED <<mesh_, before>>
    /\ UNCHANGED <<params, modifiers_, view>>

\* MeshProcessingViewer::keyboard
keyboard(key, scancode, action, mods) ==
    /\ event' = [type |-> "key", key |-> key, scancode |-> scancode,
                 action |-> action, mods |-> mods]
    /\ IF action # GLFW_PRESS /\ action # GLFW_REPEAT
       THEN /\ calls' = <<>>
            /\ UNCHANGED <<mesh_, before>>
       ELSE IF key = GLFW_KEY_O
       THEN \E ubs \in UBChoices(mesh_) :
              LET r == Rebuild(mesh_, ubs)
              IN  /\ mesh_' = r.mesh
                  /\ calls' = Append(r.log, <<"update_mesh">>)
                  /\ before' = [none |-> FALSE, mesh |-> mesh_,
                                clean |-> \A i \in 1..Len(r.log) :
                                    r.log[i][1] = "add_face" => r.log[i][3]]
       ELSE /\ calls' = << <<"MeshViewer::keyboard", key, scancode, action,
                             mods>> >>
            /\ UNCHANGED <<mesh_, before>>
    /\ UNCHANGED <<params, modifiers_, view>>

\* a press or repeat of the flip-orientation key
FlipEvent ==
    \E action \in {GLFW_PRESS, GLFW_REPEAT} :
        keyboard(GLFW_KEY_O, 24, action, 0)

InitFlip == mesh_ \in Meshes /\ InitView

NextFlip == FlipEvent

SpecFlip == InitFlip /\ [][NextFlip]_vars

\* any key event
KeyEvent ==
    \E key \in Keys, scancode \in Scancodes, action \in Actions,
       mods \in KeyMods :
        keyboard(key, scancode, action, mods)

InitKey == mesh_ \in {m \in Meshes : Len(m.faces) <= 1} /\ InitView

NextKey == KeyEvent

SpecKey == InitKey /\ [][NextKey]_vars
\* ------------------------------------------- double-precision product
\* Line 174 multiplies in IEEE-754 binary64.  A magnitude is a little-endian
\* sequence of limbs below LimbBase = 2^15; a double is [man, exp] with the
\* value man * 2^exp.
LimbBase == 32768
MantissaBits == 53

RECURSIVE Pow2(_)
Pow2(k) == IF k = 0 THEN 1 ELSE 2 * Pow2(k - 1)

\* the magnitude without leading zero limbs
RECURSIVE Trim(_)
Trim(a) ==
    IF a = <<>> THEN a
    ELSE IF a[Len(a)] = 0 THEN Trim(SubSeq(a, 1, Len(a) - 1)) ELSE a

RECURSIVE MulSmallFrom(_, _, _, _)
MulSmallFrom(a, k, i, carry) ==
    IF i > Len(a) THEN (IF carry = 0 THEN <<>> ELSE <<carry>>)
    ELSE LET t == a[i] * k + carry
         IN  <<t % LimbBase>> \o MulSmallFrom(a, k, i + 1, t \div LimbBase)

\* a * k for 0 <= k < LimbBase
MulSmall(a, k) == Trim(MulSmallFrom(a, k, 1, 0))

RECURSIVE BitsOf(_)
BitsOf(x) == IF x = 0 THEN 0 ELSE 1 + BitsOf(x \div 2)

BitLen(a) ==
    LET t == Trim(a)
    IN  IF t = <<>> THEN 0 ELSE 15 * (Len(t) - 1) + BitsOf(t[Len(t)])

\* floor(a / 2^s) for 0 <= s < 15
ShiftRightSmall(a, s) ==
    Trim([i \in 1..Len(a) |->
            (a[i] \div Pow2(s)) +
            (IF i < Len(a) THEN (a[i + 1] % Pow2(s)) * Pow2(15 - s) ELSE 0)])

\* floor(a / 2^s)
ShiftRight(a, s) ==
    LET whole == s \div 15
    IN  IF whole >= Len(a) THEN <<>>
        ELSE ShiftRightSmall(SubSeq(a, whole + 1, Len(a)), s % 15)

RECURSIVE AddOneFrom(_, _)
AddOneFrom(a, i) ==
    IF i > Len(a) THEN Append(a, 1)
    ELSE IF a[i] + 1 < LimbBase THEN [a EXCEPT ![i] = a[i] + 1]
    ELSE AddOneFrom([a EXCEPT ![i] = 0], i + 1)

AddOne(a) == AddOneFrom(a, 1)

RECURSIVE ToInt(_)
ToInt(a) == IF a = <<>> THEN 0 ELSE a[1] + LimbBase * ToInt(Tail(a))

\* the product of a double and an integer 0 <= k < LimbBase: the exact
\* product rounded to 53 significant bits, ties to even
RoundedProduct(d, k) ==
    LET exact == MulSmall(d.man, k)
        s == BitLen(exact) - MantissaBits
    IN  IF s <= 0 THEN [man |-> exact, exp |-> d.exp]
        ELSE LET q == ShiftRightSmall(exact, s)
                 r == exact[1] % Pow2(s)
                 half == Pow2(s - 1)
                 up == r > half \/ (r = half /\ q[1] % 2 = 1)
             IN  [man |-> IF up THEN AddOne(q) ELSE q, exp |-> d.exp + s]

\* the literal 0.01 = 5764607523034235 * 2^-59
Double001 == [man |-> <<5243, 3932, 27525, 163>>, exp |-> -59]

\* the conversion of a non-negative double below 2^31 to unsigned int
ToUnsigned(d) == ToInt(ShiftRight(d.man, 0 - d.exp))

\* ToUnsigned after adding 0.5, for a double with a negative exponent
ToUnsignedRounded(d) ==
    (ToInt(ShiftRight(d.man, (0 - d.exp) - 1)) + 1) \div 2

\* line 174 with the product rounded to the nearest integer
DecimationTargetRounded(n, p) ==
    ToUnsignedRounded(RoundedProduct(RoundedProduct(Double001, n), p))

\* line 174: mesh_.n_vertices() * 0.01 * target_percentage, passed to
\* simplify(unsigned int)
DecimationTarget(n, p) ==
    ToUnsigned(RoundedProduct(RoundedProduct(Double001, n), p))

\* -------------------------------------------------------- process_imgui
\* ImGui::SliderInt / SliderFloat(label, &v, lo, hi): the value the widget
\* leaves in v when the user asks for x
Slider(x, lo, hi) == IF x < lo THEN lo ELSE IF x > hi THEN hi ELSE x

\* the values asked of a slider: below, inside and above its range
Requests(lo, hi) == {lo - 1, (lo + hi) \div 2, hi + 1}

\* the meshes of the command frames: n vertices and no face
PointMesh(n) ==
    [vpos |-> [i \in 1..n |-> 1], vdeleted |-> [i \in 1..n |-> FALSE],
     faces |-> <<>>]

GuiVertexCounts == {7, 58, 100}

GuiMeshes == {PointMesh(n) : n \in GuiVertexCounts}

\* what an external algorithm that works on mesh_ in place may leave
MeshAfter(m) == GuiMeshes

\* a frame in which a slider is moved: lines 120-123, 134-139, 155-168
Adjust(param, x) ==
    /\ event' = [type |-> "adjust", widget |-> param, requested |-> x]
    /\ calls' = << <<"MeshViewer::process_imgui">> >>
    /\ UNCHANGED <<mesh_, before, modifiers_, view>>

\* line 122 with the lower end of the slider at 0
AdjustIterationsFromZero(x) ==
    /\ Adjust("Iterations", x)
    /\ iterations' = Slider(x, 0, 100)
    /\ UNCHANGED <<timestep, target_percentage, normal_deviation,
                   aspect_ratio>>

AdjustIterations(x) ==
    /\ Adjust("Iterations", x)
    /\ iterations' = Slider(x, 1, 100)
    /\ UNCHANGED <<timestep, target_percentage, normal_deviation,
                   aspect_ratio>>

\* timestep in thousandths: lb = 0.001, ub = 0.1
AdjustTimeStep(x) ==
    /\ Adjust("TimeStep", x)
    /\ timestep' = Slider(x, 1, 100)
    /\ UNCHANGED <<iterations, target_percentage, normal_deviation,
                   aspect_ratio>>

AdjustPercentage(x) ==
    /\ Adjust("Percentage", x)
    /\ target_percentage' = Slider(x, 1, 99)
    /\ UNCHANGED <<iterations, timestep, normal_deviation, aspect_ratio>>

AdjustNormalDeviation(x) ==
    /\ Adjust("Normal Deviation", x)
    /\ normal_deviation' = Slider(x, 1, 135)
    /\ UNCHANGED <<iterations, timestep, target_percentage, aspect_ratio>>

AdjustAspectRatio(x) ==
    /\ Adjust("Aspect Ratio", x)
    /\ aspect_ratio' = Slider(x, 1, 10)
    /\ UNCHANGED <<iterations, timestep, target_percentage,
                   normal_deviation>>

\* a frame in which a button is clicked: the calls the branch makes
Click(button, made) ==
    /\ event' = [type |-> "gui", widget |-> button]
    /\ calls' = << <<"MeshViewer::process_imgui">> >> \o made
    /\ UNCHANGED <<params, modifiers_>>

\* lines 86-112: the three curvature buttons
Curvature(button, to_texture, coords) ==
    /\ Click(button, << <<"analyze_tensor", 1, TRUE>>, <<to_texture>>,
                       <<"use_cold_warm_texture">>, <<"update_mesh">>,
                       <<"set_draw_mode", "Texture">> >>)
    /\ texcoords' = coords
    /\ texture' = "cold warm"
    /\ draw_mode' = "Texture"
    /\ UNCHANGED <<mesh_, before>>

MeanCurvature ==
    Curvature("Mean Curvature", "mean_curvature_to_texture_coordinates",
              "mean curvature")

GaussCurvature ==
    Curvature("Gauss Curvature", "gauss_curvature_to_texture_coordinates",
              "gauss curvature")

MaxCurvature ==
    Curvature("Abs. Max. Curvature", "max_curvature_to_texture_coordinates",
              "max curvature")

\* a button whose algorithm works on the mesh and that then refreshes
Process(button, made) ==
    /\ Click(button, Append(made, <<"update_mesh">>))
    /\ mesh_' \in MeshAfter(mesh_)
    /\ before' = NoMesh
    /\ UNCHANGED view

\* lines 125-130
ExplicitSmoothing ==
    Process("Explicit Smoothing", << <<"explicit_smoothing", iterations>> >>)

\* lines 141-147: dt = timestep * radius_ * radius_
ImplicitSmoothing ==
    Process("Implicit Smoothing",
            << <<"implicit_smoothing", timestep, "* radius_ * radius_">> >>)

\* lines 170-176
Decimate ==
    Process("Decimate it!",
            << <<"initialize", aspect_ratio, 0, 0, normal_deviation, 0>>,
               <<"simplify",
                 DecimationTarget(n_vertices(mesh_), target_percentage)>> >>)

\* lines 184-188 without the update_mesh of line 187
LoopSubdivisionUnrefreshed ==
    /\ Click("Loop Subdivision", << <<"loop">> >>)
    /\ mesh_' \in MeshAfter(mesh_)
    /\ before' = NoMesh
    /\ UNCHANGED view

\* lines 184-188
LoopSubdivision == Process("Loop Subdivision", << <<"loop">> >>)

\* lines 190-194
Sqrt3Subdivision == Process("Sqrt(3) Subdivision", << <<"sqrt3">> >>)

\* lines 202-210: bb = mesh_.bounds().size()
AdaptiveRemeshing ==
    Process("Adaptive Remeshing",
            << <<"adaptive_remeshing", "0.001 * bb", "1.0 * bb",
                 "0.001 * bb">> >>)

\* lines 212-221: l is the mean edge length of mesh_
UniformRemeshing ==
    Process("Uniform Remeshing",
            << <<"uniform_remeshing", "mean edge length">> >>)

InitGui == mesh_ \in GuiMeshes /\ InitView

NextGui ==
    \/ \E x \in Requests(1, 100) : AdjustIterations(x)
    \/ \E x \in Requests(1, 100) : AdjustTimeStep(x)
    \/ \E x \in Requests(1, 99) : AdjustPercentage(x)
    \/ \E x \in Requests(1, 135) : AdjustNormalDeviation(x)
    \/ \E x \in Requests(1, 10) : AdjustAspectRatio(x)
    \/ MeanCurvature
    \/ GaussCurvature
    \/ MaxCurvature
    \/ ExplicitSmoothing
    \/ ImplicitSmoothing
    \/ Decimate
    \/ LoopSubdivision
    \/ Sqrt3Subdivision
    \/ AdaptiveRemeshing
    \/ UniformRemeshing

SpecGui == InitGui /\ [][NextGui]_vars

\* ---------------------------------------------------------------- mouse
\* pick_vertex(x, y): a vertex of the mesh under the cursor, or the invalid
\* handle when there is none
InvalidHandle == 0 - 1

Picks(m) == {InvalidHandle} \cup {i - 1 : i \in 1..Len(m.vpos)}

\* lines 233-250: the gesture branch for the picked handle v
Geodesic(v, checked) ==
    IF checked => is_valid(mesh_, v)
    THEN /\ calls' = << <<"cursor_pos">>, <<"pick_vertex", v>>,
                        <<"SurfaceGeodesic", <<v>> >>,
                        <<"distance_to_texture_coordinates">>,
                        <<"use_checkerboard_texture">>, <<"update_mesh">>,
                        <<"set_draw_mode", "Texture">> >>
         /\ texcoords' = "geodesic distance"
         /\ texture' = "checkerboard"
         /\ draw_mode' = "Texture"
    ELSE /\ calls' = << <<"cursor_pos">>, <<"pick_vertex", v>> >>
         /\ UNCHANGED view

\* the handler for a given gesture test and validity check
MouseHandler(button, action, mods, gesture, checked) ==
    /\ event' = [type |-> "mouse", button |-> button, action |-> action,
                 mods |-> mods, held |-> modifiers_]
    /\ IF gesture
       THEN \E v \in Picks(mesh_) : Geodesic(v, checked)
       ELSE /\ calls' = << <<"MeshViewer::mouse", button, action, mods>> >>
            /\ UNCHANGED view
    /\ UNCHANGED <<mesh_, before, params, modifiers_>>

\* mouse without the test of modifiers_ in line 231
mouseAnyModifier(button, action, mods) ==
    MouseHandler(button, action, mods,
        action = GLFW_PRESS /\ button = GLFW_MOUSE_BUTTON_MIDDLE, TRUE)

\* mouse without the is_valid test of line 236
mouseUnchecked(button, action, mods) ==
    MouseHandler(button, action, mods,
        /\ action = GLFW_PRESS
        /\ button = GLFW_MOUSE_BUTTON_MIDDLE
        /\ modifiers_ = GLFW_MOD_SHIFT, FALSE)

\* MeshProcessingViewer::mouse
mouse(button, action, mods) ==
    MouseHandler(button, action, mods,
        /\ action = GLFW_PRESS
        /\ button = GLFW_MOUSE_BUTTON_MIDDLE
        /\ modifiers_ = GLFW_MOD_SHIFT, TRUE)

MouseEvent ==
    \E button \in Buttons, action \in Actions, mods \in Mods :
        mouse(button, action, mods)

\* the base viewer keeps in modifiers_ the modifier mask that is held
RecordModifiers ==
    \E m \in Mods :
        /\ modifiers_' = m
        /\ event' = [type |-> "modifiers"]
        /\ calls' = <<>>
        /\ UNCHANGED <<mesh_, before, params, view>>

InitMouse == mesh_ \in {m \in Meshes : Len(m.faces) <= 1} /\ InitView

NextMouse == MouseEvent \/ RecordModifiers \/ MeanCurvature

SpecMouse == InitMouse /\ [][NextMouse]_vars

\* ============================================================ claims
\* the calls of the last handler with the given name
CallsNamed(name) == SelectSeq(calls, LAMBDA c : c[1] = name)

\* the last event was a press or repeat of the flip-orientation key, which
\* rebuilt before.mesh into mesh_
Flipped ==
    /\ event.type = "key"
    /\ event.key = GLFW_KEY_O
    /\ event.action \in {GLFW_PRESS, GLFW_REPEAT}

RECURSIVE Accepted(_, _)
Accepted(af, j) ==
    IF j > Len(af) THEN <<>>
    ELSE IF af[j][3] THEN <<af[j][2]>> \o Accepted(af, j + 1)
    ELSE Accepted(af, j + 1)

C10_FailedInsertionsAreSkipped ==
    (Flipped /\ ~before.clean) =>
        LET M == before.mesh
            lv == vertices(M)
            af == CallsNamed("add_face")
        IN  /\ Len(af) = Len(M.faces)
            /\ \A j \in 1..Len(M.faces) : \A i \in 1..Len(M.faces[j]) :
                  af[j][2][i] = M.faces[j][Len(M.faces[j]) + 1 - i]
            /\ mesh_.vpos = [i \in 1..Len(lv) |-> M.vpos[lv[i] + 1]]
            /\ mesh_.faces = Accepted(af, 1)
            /\ Len(mesh_.faces) < Len(M.faces)
            /\ mesh_ # M
            /\ calls[Len(calls)] = <<"update_mesh">>
            /\ Len(CallsNamed("update_mesh")) = 1
            /\ \A i \in 1..Len(calls) :
                  calls[i][1] \in {"add_vertex", "add_face", "update_mesh"}

\* a rejection in a mesh without deleted vertices, followed by a face that
\* is inserted
C10_Witness ==
    /\ Flipped
    /\ ~before.clean
    /\ \A i \in 1..Len(before.mesh.vpos) : ~before.mesh.vdeleted[i]
    /\ Len(mesh_.faces) > 0
    /\ Len(mesh_.faces) < Len(before.mesh.faces)

\* C3: every vertex handle passed to the new mesh's add_face during an
\* orientation rebuild was issued by the new mesh's own add_vertex.
C3_OnlyNewHandlesReachAddFace ==
    Flipped =>
        LET issued == {c[3] : c \in Range(CallsNamed("add_vertex"))}
        IN  \A c \in Range(CallsNamed("add_face")) :
                \A v \in Range(c[2]) : v \in issued

\* the positions of the enumerated vertices, and per face the positions of
\* its vertices in traversal order
NoPoint == "no point"
PointOf(m, v) ==
    IF is_valid(m, v) /\ ~m.vdeleted[v + 1] THEN position(m, v) ELSE NoPoint

VertexPoints(m) == [i \in 1..n_vertices(m) |-> position(m, vertices(m)[i])]

FacePoints(m, j) == [i \in 1..Len(m.faces[j]) |-> PointOf(m, m.faces[j][i])]

\* the same cyclic order
SameWinding(f, g) ==
    /\ Len(f) = Len(g)
    /\ \E k \in 0..(Len(f) - 1) :
          \A i \in 1..Len(f) : g[i] = f[((i - 1 + k) % Len(f)) + 1]

\* every face insertion of a rebuild of m names handles of the new mesh
Defined(m) == \A j \in 1..Len(m.faces) : ~Stale(m, j)

\* C1: two consecutive flip-orientation key events with no mutation in
\* between, in which every face insertion was well defined and succeeded,
\* leave every vertex at its original position and every face with its
\* original winding: the same cyclic order of the same points.
C1_TwoFlipsRestoreTheMesh ==
    [][(/\ before # NoMesh
        /\ before.clean
        /\ Defined(before.mesh)
        /\ before'.clean
        /\ Defined(mesh_)
        /\ before'.mesh = mesh_
        /\ mesh_' # mesh_)
       => /\ VertexPoints(mesh_') = VertexPoints(before.mesh)
          /\ Len(mesh_'.faces) = Len(before.mesh.faces)
          /\ \A j \in 1..Len(before.mesh.faces) :
                SameWinding(FacePoints(mesh_', j), FacePoints(before.mesh, j))]_vars

\* C6 as stated: every key event for another key than the flip-orientation
\* key is forwarded exactly once with its arguments, whatever its action,
\* and an event for the flip-orientation key is never forwarded.
C6_EveryOtherKeyEventIsForwarded ==
    event.type = "key" =>
        IF event.key # GLFW_KEY_O
        THEN calls = << <<"MeshViewer::keyboard", event.key, event.scancode,
                          event.action, event.mods>> >>
        ELSE CallsNamed("MeshViewer::keyboard") = <<>>

\* C6 amended: a press or repeat of another key is forwarded exactly once
\* with its key, scancode, action and modifiers; a release of any key is
\* dropped without a call; the flip-orientation key is never forwarded,
\* and its press and its repeat both rebuild the mesh and request the
\* refresh.
C6_PressAndRepeatAreForwarded ==
    event.type = "key" =>
        IF event.action = GLFW_RELEASE
        THEN calls = <<>>
        ELSE IF event.key # GLFW_KEY_O
        THEN calls = << <<"MeshViewer::keyboard", event.key, event.scancode,
                          event.action, event.mods>> >>
        ELSE /\ CallsNamed("MeshViewer::keyboard") = <<>>
             /\ before # NoMesh
             /\ Len(CallsNamed("add_face")) = Len(before.mesh.faces)
             /\ Len(CallsNamed("add_vertex")) = n_vertices(before.mesh)
             /\ calls[Len(calls)] = <<"update_mesh">>

C6_Witness ==
    /\ event.type = "key"
    /\ event.key = OtherKey
    /\ event.action = GLFW_REPEAT
    /\ event.mods = GLFW_MOD_SHIFT
    /\ Len(calls) = 1
    /\ before # NoMesh
\* the arguments of the one call of the given name the last handler made
TheCall(log, name) == SelectSeq(log, LAMBDA c : c[1] = name)[1]

Count(log, name) == Len(SelectSeq(log, LAMBDA c : c[1] = name))

Decimated == event.type = "gui" /\ event.widget = "Decimate it!"

\* C4 as stated: the decimation command on a mesh with n vertices and
\* stored percentage p passes round(n * p / 100) to simplify.
C4_TargetIsRoundedProduct ==
    [][(event'.type = "gui" /\ event'.widget = "Decimate it!") =>
        LET n == n_vertices(mesh_)
            p == target_percentage
        IN  TheCall(calls', "simplify")[2] = (2 * n * p + 100) \div 200]_vars

\* C4 amended: the target passed to simplify is the double product
\* n * 0.01 * p cut off toward zero, not rounded: it is floor(n * p / 100)
\* when n * p is no multiple of 100 (n = 7, p = 50 gives 3), and it is
\* n * p / 100 or one less when it is (n = 100, p = 50 gives 50; n = 58,
\* p = 50 gives 28, the double product being 28.999...).
C4_TargetIsTruncatedProduct ==
    [][(event'.type = "gui" /\ event'.widget = "Decimate it!") =>
        LET n == n_vertices(mesh_)
            p == target_percentage
            t == TheCall(calls', "simplify")[2]
        IN  /\ Count(calls', "simplify") = 1
            /\ p \in 1..99
            /\ (n * p) % 100 # 0 => t = (n * p) \div 100
            /\ (n * p) % 100 = 0 => t \in {(n * p) \div 100 - 1,
                                           (n * p) \div 100}
            /\ (n = 100 /\ p = 50) => t = 50
            /\ (n = 58 /\ p = 50) => t = 28
            /\ (n = 7 /\ p = 50) => t = 3]_vars

\* decimation of the 58-vertex mesh at 50 percent
C4_Witness ==
    /\ Decimated
    /\ target_percentage = 50
    /\ TheCall(calls, "simplify") = <<"simplify", 28>>

\* the algorithm call of each catalogue command
Algorithm ==
    [w \in {"Mean Curvature", "Gauss Curvature", "Abs. Max. Curvature"} |->
        "analyze_tensor"] @@
    ("Explicit Smoothing" :> "explicit_smoothing") @@
    ("Implicit Smoothing" :> "implicit_smoothing") @@
    ("Decimate it!" :> "simplify") @@
    ("Loop Subdivision" :> "loop") @@
    ("Sqrt(3) Subdivision" :> "sqrt3") @@
    ("Adaptive Remeshing" :> "adaptive_remeshing") @@
    ("Uniform Remeshing" :> "uniform_remeshing")

Algorithms == {Algorithm[w] : w \in DOMAIN Algorithm}

\* C8: one trigger of a catalogue command makes exactly one invocation of
\* its algorithm and of no other, followed by exactly one update_mesh.
C8_OneAlgorithmCallThenOneRefresh ==
    event.type = "gui" =>
        /\ event.widget \in DOMAIN Algorithm
        /\ Count(calls, Algorithm[event.widget]) = 1
        /\ \A a \in Algorithms \ {Algorithm[event.widget]} :
              Count(calls, a) = 0
        /\ Count(calls, "update_mesh") = 1
        /\ \E i \in 1..Len(calls) : \E j \in 1..Len(calls) :
              /\ i < j
              /\ calls[i][1] = Algorithm[event.widget]
              /\ calls[j] = <<"update_mesh">>

C8_Witness ==
    /\ event.type = "gui"
    /\ event.widget = "Loop Subdivision"
    /\ calls[Len(calls)] = <<"update_mesh">>
    /\ iterations = 100

\* the declared domain of each parameter
ParamsInDomain ==
    /\ iterations \in 1..100
    /\ timestep \in 1..100
    /\ target_percentage \in 1..99
    /\ normal_deviation \in 1..135
    /\ aspect_ratio \in 1..10

Domain ==
    ("Iterations" :> <<1, 100>>) @@ ("TimeStep" :> <<1, 100>>) @@
    ("Percentage" :> <<1, 99>>) @@ ("Normal Deviation" :> <<1, 135>>) @@
    ("Aspect Ratio" :> <<1, 10>>)

Stored ==
    ("Iterations" :> iterations) @@ ("TimeStep" :> timestep) @@
    ("Percentage" :> target_percentage) @@
    ("Normal Deviation" :> normal_deviation) @@
    ("Aspect Ratio" :> aspect_ratio)

\* C9: from the defaults, every stored parameter stays in its declared
\* domain; an adjustment stores the requested value, or the nearest end
\* of the domain when the request is outside it, and leaves the other
\* parameters alone; a command trigger changes no stored parameter.
C9_ParametersStayInDomain ==
    /\ Defaults
    /\ []ParamsInDomain
    /\ [][/\ event'.type = "gui" => UNCHANGED params
          /\ event'.type = "adjust" =>
                LET w == event'.widget
                    x == event'.requested
                    lo == Domain[w][1]
                    hi == Domain[w][2]
                IN  /\ x < lo => Stored'[w] = lo
                    /\ x > hi => Stored'[w] = hi
                    /\ x \in lo..hi => Stored'[w] = x
                    /\ \A o \in DOMAIN Stored \ {w} :
                          Stored'[o] = Stored[o]]_vars

C9_Witness ==
    /\ event.type = "adjust"
    /\ event.widget = "Iterations"
    /\ event.requested = 0
    /\ iterations = 1
    /\ target_percentage = 99

Gesture ==
    /\ event.type = "mouse"
    /\ event.action = GLFW_PRESS
    /\ event.button = GLFW_MOUSE_BUTTON_MIDDLE
    /\ event.held = GLFW_MOD_SHIFT

\* C5: a geodesic gesture whose pick is invalid changes neither the mesh nor
\* the texture coordinates, colour scheme or draw mode and requests no
\* refresh; one whose pick V is valid hands the geodesic query the seed
\* list with exactly V, selects the checkerboard scheme and the Texture
\* draw mode and requests a refresh.
C5_GestureActsOnlyOnValidPick ==
    [][Gesture' =>
        /\ Count(calls', "pick_vertex") = 1
        /\ LET V == TheCall(calls', "pick_vertex")[2]
           IN  IF V < 0 \/ V >= Len(mesh_.vpos)
               THEN /\ mesh_' = mesh_
                    /\ UNCHANGED view
                    /\ Count(calls', "update_mesh") = 0
                    /\ Count(calls', "SurfaceGeodesic") = 0
               ELSE /\ Count(calls', "SurfaceGeodesic") = 1
                    /\ TheCall(calls', "SurfaceGeodesic")[2] = <<V>>
                    /\ texture' = "checkerboard"
                    /\ draw_mode' = "Texture"
                    /\ Count(calls', "update_mesh") = 1]_vars

C5_Witness ==
    /\ Gesture
    /\ Count(calls, "SurfaceGeodesic") = 1
    /\ TheCall(calls, "SurfaceGeodesic")[2] = <<2>>
    /\ texture = "checkerboard"

\* C7: a mouse event is handled as a geodesic gesture exactly when it is a
\* press of the middle button while the held modifier mask is shift alone;
\* every other mouse event is forwarded once, with its button, action and
\* modifiers, to the base handler, and a gesture is never forwarded.
C7_GestureIffMiddlePressWithShift ==
    event.type = "mouse" =>
        IF Gesture
        THEN /\ Count(calls, "MeshViewer::mouse") = 0
             /\ Count(calls, "pick_vertex") = 1
        ELSE calls = << <<"MeshViewer::mouse", event.button, event.action,
                          event.mods>> >>

\* a gesture over empty space
C7_Witness ==
    /\ Gesture
    /\ Count(calls, "pick_vertex") = 1
    /\ TheCall(calls, "pick_vertex")[2] = InvalidHandle
    /\ Count(calls, "MeshViewer::mouse") = 0
====
